---- MODULE Spec2Model ----
(***************************************************************************)
(* Shamir's Secret Sharing over GF(257) applied to image pixels.           *)
(*                                                                         *)
(* sss_core.py   : mod_inverse, evaluate_polynomial, split_secret,         *)
(*                 lagrange_interpolation, recover_secret                  *)
(* image_utils.py: create_preview_image, image_to_shares, shares_to_image  *)
(* app.py        : the "Combine Shares" tab                                *)
(*                                                                         *)
(* Python exceptions are modelled as result records: a call either         *)
(* returns a value (err = "none") or raises (err names the exception and   *)
(* val is None).                                                           *)
(***************************************************************************)
EXTENDS Integers, Sequences, FiniteSets, TLC

VARIABLES
    pc,           \* position of the caller: which call comes next
    secret,       \* split_secret argument
    threshold,    \* split_secret argument
    num_shares,   \* split_secret argument
    split,        \* outcome of split_secret: [err, coefficients, shares]
    rshares,      \* the list handed to recover_secret
    recovered,    \* outcome of recover_secret: [err, val]
    pixel,        \* one pixel of share_data: the (r, g, b) share values
    encoded,      \* the RGBA pixel create_preview_image writes for it
    decoded,      \* the (r, g, b) shares_to_image reads back from it
    image,        \* the image handed to image_to_shares
    shares_out,   \* outcome of image_to_shares: [err, shares_data, previews]
    uploaded,     \* the files uploaded to the "Combine Shares" tab
    combined,     \* outcome of the tab: [status, err, image, decoded_pixels]
    inv_num,      \* mod_inverse argument num
    inverse,      \* outcome of mod_inverse: [err, val]
    progress      \* a pixel loop with a progress callback:
                  \* [op, total_pixels, processed_pixels, reports]

scalarVars == <<secret, threshold, num_shares, split, rshares, recovered>>
codecVars  == <<pixel, encoded, decoded>>
imageVars  == <<image, shares_out, uploaded, combined>>

auxVars    == <<inv_num, inverse, progress>>

vars == <<pc, scalarVars, codecVars, imageVars, auxVars>>

----------------------------------------------------------------------------
(* Program constants and bounds *)

PRIME == 257

\* num_shares ranges over 0..MaxShares, threshold over -1..MaxShares+1
MaxShares == 4
\* random.randint(1, PRIME-1) is drawn from the CoefSpread lowest and highest values
CoefSpread == 2
\* secrets are the SecretSpread+1 lowest and highest field elements, and the
\* SecretSpread nearest integers on each side outside the field
SecretSpread == 1
\* caller-supplied share lists: x in 1..MaxX, at most MaxList entries
MaxX == 3
MaxList == 3
\* share values of a pixel are the ChanSpread+1 lowest and highest of 0..256
ChanSpread == 2
\* images are at most MaxDim wide and MaxDim high
MaxDim == 2
\* image_to_shares is asked for 2..MaxImgShares shares
MaxImgShares == 3
\* the outcomes of random.randint repeat with period RndPeriod
RndPeriod == 3
\* at most MaxFiles files are uploaded to the combine tab
MaxFiles == 2
\* the pixel loops run over 1..MaxPixels pixels
MaxPixels == 210

None == 0 - 1

Return(v) == [err |-> "none", val |-> v]
Raise(e)  == [err |-> e, val |-> None]

\* the messages of the ValueErrors the core raises
ErrThreshold == "ValueError: Threshold cannot be greater than the number of shares"
ErrRange     == "ValueError: Secret must be in range"
ErrInverse   == "ValueError: Modular inverse does not exist"
ErrNoShares  == "ValueError: No shares provided"

\* the coefficient draws of random.randint(0, prime - 1)
CoefsWithZero == (0..CoefSpread) \cup ((PRIME - CoefSpread)..(PRIME - 1))

Coefs      == (1..CoefSpread) \cup ((PRIME - CoefSpread)..(PRIME - 1))
InRange    == (0..SecretSpread) \cup {100}
              \cup ((PRIME - 1 - SecretSpread)..(PRIME - 1))
OutOfRange == ((0 - SecretSpread)..(0 - 1)) \cup (PRIME..(PRIME + SecretSpread - 1))

Max(a, b) == IF a >= b THEN a ELSE b
Min(a, b) == IF a <= b THEN a ELSE b

----------------------------------------------------------------------------
(* sss_core.py *)

RECURSIVE extended_gcd(_, _)
extended_gcd(a, b) ==
    IF a = 0
    THEN <<b, 0, 1>>
    ELSE LET r == extended_gcd(b % a, a)
         IN  <<r[1], r[3] - (b \div a) * r[2], r[2]>>

mod_inverse_always(num, mod) ==
    LET r == extended_gcd(num, mod)
    IN  Return(((r[2] % mod) + mod) % mod)

mod_inverse(num, mod) ==
    LET r == extended_gcd(num, mod)
    IN  IF r[1] # 1
        THEN Raise(ErrInverse)
        ELSE Return(((r[2] % mod) + mod) % mod)

\* Horner's rule over reversed(coefficients): k runs from the last index down
RECURSIVE horner(_, _, _, _, _)
horner(coefficients, k, x, prime, result) ==
    IF k = 0
    THEN result
    ELSE horner(coefficients, k - 1, x, prime,
                (result * x + coefficients[k]) % prime)

evaluate_polynomial_forward(coefficients, x, prime) ==
    horner([k \in 1..Len(coefficients) |->
               coefficients[Len(coefficients) + 1 - k]],
           Len(coefficients), x, prime, 0)

evaluate_polynomial(coefficients, x, prime) ==
    horner(coefficients, Len(coefficients), x, prime, 0)

\* rnd is the stream of values random.randint(1, prime - 1) returns, in order
split_secret_no_threshold_check(secret_, threshold_, num_shares_, prime, rnd) ==
    IF ~(0 <= secret_ /\ secret_ < prime)
    THEN [err |-> ErrRange, coefficients |-> <<>>, shares |-> <<>>]
    ELSE LET coefficients ==
                 <<secret_>> \o [k \in 1..Max(threshold_ - 1, 0) |-> rnd[k]]
         IN  [err |-> "none",
              coefficients |-> coefficients,
              shares |-> [i \in 1..Max(num_shares_, 0) |->
                             <<i, evaluate_polynomial(coefficients, i, prime)>>]]

split_secret_no_range_check(secret_, threshold_, num_shares_, prime, rnd) ==
    IF threshold_ > num_shares_
    THEN [err |-> ErrThreshold, coefficients |-> <<>>, shares |-> <<>>]
    ELSE LET coefficients ==
                 <<secret_>> \o [k \in 1..Max(threshold_ - 1, 0) |-> rnd[k]]
         IN  [err |-> "none",
              coefficients |-> coefficients,
              shares |-> [i \in 1..Max(num_shares_, 0) |->
                             <<i, evaluate_polynomial(coefficients, i, prime)>>]]

split_secret(secret_, threshold_, num_shares_, prime, rnd) ==
    IF threshold_ > num_shares_
    THEN [err |-> ErrThreshold, coefficients |-> <<>>, shares |-> <<>>]
    ELSE IF ~(0 <= secret_ /\ secret_ < prime)
    THEN [err |-> ErrRange, coefficients |-> <<>>, shares |-> <<>>]
    ELSE LET coefficients ==
                 <<secret_>> \o [k \in 1..Max(threshold_ - 1, 0) |-> rnd[k]]
         IN  [err |-> "none",
              coefficients |-> coefficients,
              shares |-> [i \in 1..Max(num_shares_, 0) |->
                             <<i, evaluate_polynomial(coefficients, i, prime)>>]]

\* the inner loop of lagrange_interpolation: <<numerator, denominator>> after
\* the entries 1..j of the list have been visited for share i
RECURSIVE basis_terms(_, _, _, _)
basis_terms(shares, i, j, prime) ==
    IF j = 0
    THEN <<1, 1>>
    ELSE LET nd == basis_terms(shares, i, j - 1, prime)
         IN  IF i # j
             THEN <<(nd[1] * (0 - shares[j][1])) % prime,
                    (nd[2] * (shares[i][1] - shares[j][1])) % prime>>
             ELSE nd

\* the outer loop: the running sum after shares 1..i, or the first exception
RECURSIVE lagrange_sum(_, _, _)
lagrange_sum(shares, i, prime) ==
    IF i = 0
    THEN Return(0)
    ELSE LET acc == lagrange_sum(shares, i - 1, prime)
         IN  IF acc.err # "none"
             THEN acc
             ELSE LET nd  == basis_terms(shares, i, Len(shares), prime)
                      inv == mod_inverse(nd[2], prime)
                  IN  IF inv.err # "none"
                      THEN inv
                      ELSE Return((acc.val
                                   + shares[i][2] * ((nd[1] * inv.val) % prime))
                                  % prime)

lagrange_interpolation(shares, prime) ==
    IF shares = <<>>
    THEN Raise(ErrNoShares)
    ELSE lagrange_sum(shares, Len(shares), prime)

recover_secret(shares, prime) == lagrange_interpolation(shares, prime)

----------------------------------------------------------------------------
(* image_utils.py: the channel codec *)

\* a numpy uint8 cell holds a value in 0..255
Uint8(v) == v % 256

\* create_preview_image, lines 31-36: which of r, g, b is exactly 256
marker_of(rgb) == [c \in 1..3 |-> IF rgb[c] = 256 THEN 1 ELSE 0]

\* create_preview_image, lines 52-73: the alpha value for a marker triple
alpha_of(m) ==
    IF ~(\E c \in 1..3 : m[c] > 0) THEN 254
    ELSE IF m[1] = 1 /\ m[2] = 0 /\ m[3] = 0 THEN 255
    ELSE IF m[1] = 0 /\ m[2] = 1 /\ m[3] = 0 THEN 253
    ELSE IF m[1] = 0 /\ m[2] = 0 /\ m[3] = 1 THEN 252
    ELSE IF m[1] = 1 /\ m[2] = 1 /\ m[1] = 0 THEN 251
    ELSE IF m[1] = 1 /\ m[2] = 0 /\ m[3] = 1 THEN 250
    ELSE IF m[1] = 0 /\ m[2] = 1 /\ m[3] = 1 THEN 249
    ELSE IF m[1] = 1 /\ m[2] = 1 /\ m[3] = 1 THEN 248
    ELSE 254

\* create_preview_image for one pixel: the RGBA cell written for (r, g, b)
encode_pixel(rgb) ==
    LET val(v) == IF v = 256 THEN 255 ELSE v % 256
    IN  <<Uint8(val(rgb[1])), Uint8(val(rgb[2])), Uint8(val(rgb[3])),
          Uint8(alpha_of(marker_of(rgb)))>>

\* decode_pixel with the codes of "normal" and "R was 256" exchanged
decode_pixel_254_marks_r(cell, chans) ==
    LET up(v) == IF v = 255 THEN 256 ELSE v
        r == cell[1]
        g == cell[2]
        b == cell[3]
        alpha == IF chans = 4 THEN cell[4] ELSE 0
    IN  IF chans # 4 THEN <<r, g, b>>
        ELSE IF alpha = 254 THEN <<up(r), g, b>>
        ELSE IF alpha = 253 THEN <<r, up(g), b>>
        ELSE IF alpha = 252 THEN <<r, g, up(b)>>
        ELSE IF alpha = 251 THEN <<up(r), up(g), b>>
        ELSE IF alpha = 250 THEN <<up(r), g, up(b)>>
        ELSE IF alpha = 249 THEN <<r, up(g), up(b)>>
        ELSE IF alpha = 248 THEN <<up(r), up(g), up(b)>>
        ELSE <<r, g, b>>

\* shares_to_image, lines 177-205, for one cell of an image with chans
\* channels (3 or 4): the (r, g, b) share values read from it
decode_pixel(cell, chans) ==
    LET up(v) == IF v = 255 THEN 256 ELSE v
        r == cell[1]
        g == cell[2]
        b == cell[3]
        alpha == IF chans = 4 THEN cell[4] ELSE 0
    IN  IF chans # 4 THEN <<r, g, b>>
        ELSE IF alpha = 255 THEN <<up(r), g, b>>
        ELSE IF alpha = 253 THEN <<r, up(g), b>>
        ELSE IF alpha = 252 THEN <<r, g, up(b)>>
        ELSE IF alpha = 251 THEN <<up(r), up(g), b>>
        ELSE IF alpha = 250 THEN <<up(r), g, up(b)>>
        ELSE IF alpha = 249 THEN <<r, up(g), up(b)>>
        ELSE IF alpha = 248 THEN <<up(r), up(g), up(b)>>
        ELSE <<r, g, b>>

----------------------------------------------------------------------------
(* image_utils.py: whole images.  An image is a record                     *)
(* [width, height, chans, px]: px lists the cells row by row (the cell at  *)
(* row y, column x is px[y * width + x + 1]) and each cell has chans       *)
(* entries.                                                                *)

ErrIndex == "IndexError: index is out of bounds"

\* the k-th value random.randint returns when the outcomes repeat rnd
draw(rnd, k) == rnd[((k - 1) % Len(rnd)) + 1]

\* image_to_shares, lines 112-114: split_secret for channel c of pixel p;
\* each earlier call has consumed threshold-1 draws
channel_split(img, p, c, num_shares_, threshold_, rnd) ==
    LET per   == Max(threshold_ - 1, 0)
        start == ((p - 1) * 3 + (c - 1)) * per
    IN  split_secret(img.px[p][c], threshold_, num_shares_, PRIME,
                     [d \in 1..per |-> draw(rnd, start + d)])

\* create_preview_image, lines 8-76
create_preview_image(share_data, height, width) ==
    [width  |-> width,
     height |-> height,
     chans  |-> 4,
     px     |-> [p \in 1..(height * width) |->
                    IF p - 1 < Len(share_data)
                    THEN encode_pixel(share_data[p])
                    ELSE <<0, 0, 0, Uint8(254)>>]]

\* image_to_shares, lines 78-147, for an RGB image
image_to_shares(img, num_shares_, threshold_, rnd) ==
    LET total_pixels == img.height * img.width
        sp(p, c) == channel_split(img, p, c, num_shares_, threshold_, rnd)
    IN  IF sp(1, 1).err # "none"
        THEN [err |-> sp(1, 1).err, shares_data |-> <<>>, previews |-> <<>>]
        ELSE LET shares_data ==
                     [i \in 1..Max(num_shares_, 0) |->
                         [p \in 1..total_pixels |->
                             <<sp(p, 1).shares[i][2],
                               sp(p, 2).shares[i][2],
                               sp(p, 3).shares[i][2]>>]]
             IN  [err |-> "none",
                  shares_data |-> shares_data,
                  previews |-> [i \in 1..Max(num_shares_, 0) |->
                                   create_preview_image(shares_data[i],
                                                        img.height, img.width)]]

\* img_array[y, x]
cell(img, y, x) == img.px[y * img.width + x + 1]

\* shares_to_image, lines 175-176: the loops stay inside the array of img
extract_ok(img, width, height) == img.height >= height /\ img.width >= width

\* the cells of img read by lines 175-208 before the loops end or
\* img_array[y, x] raises an IndexError
cells_read(img, width, height) ==
    IF extract_ok(img, width, height) THEN width * height
    ELSE IF img.width < width THEN img.width
    ELSE img.height * width

\* shares_to_image, lines 224-250: the output cell for pixel p. An exception
\* in any of the three recoveries makes the cell black. Channel values enter
\* the field arithmetic as unbounded integers.
recover_pixel(share_data, p) ==
    LET ch(c) == [k \in 1..Len(share_data) |->
                     <<share_data[k][1], share_data[k][2][p][c]>>]
        r == recover_secret(ch(1), PRIME)
        g == recover_secret(ch(2), PRIME)
        b == recover_secret(ch(3), PRIME)
    IN  IF r.err # "none" \/ g.err # "none" \/ b.err # "none"
        THEN <<0, 0, 0>>
        ELSE <<Uint8(Min(255, r.val % 256)),
               Uint8(Min(255, g.val % 256)),
               Uint8(Min(255, b.val % 256))>>

\* shares_to_image without the try/except of lines 237-250
shares_to_image_no_catch(shares) ==
    IF shares = <<>>
    THEN [err |-> ErrNoShares, image |-> <<>>, decoded_pixels |-> 0]
    ELSE
    LET width  == shares[1][2].width
        height == shares[1][2].height
        bad    == {k \in 1..Len(shares) :
                      ~extract_ok(shares[k][2], width, height)}
    IN  IF bad # {}
        THEN LET k == CHOOSE m \in bad : \A n \in bad : m <= n
             IN  [err |-> ErrIndex,
                  image |-> <<>>,
                  decoded_pixels |->
                      (k - 1) * width * height
                      + cells_read(shares[k][2], width, height)]
        ELSE LET share_data ==
                     [k \in 1..Len(shares) |->
                         <<shares[k][1],
                           [p \in 1..(width * height) |->
                               decode_pixel(cell(shares[k][2],
                                                 (p - 1) \div width,
                                                 (p - 1) % width),
                                            shares[k][2].chans)]>>]
                 first == recover_secret(
                              [k \in 1..Len(shares) |->
                                  <<share_data[k][1], share_data[k][2][1][1]>>],
                              PRIME)
             IN  IF first.err # "none"
                 THEN [err |-> first.err, image |-> <<>>,
                       decoded_pixels |-> Len(shares) * width * height]
                 ELSE [err |-> "none",
                       image |-> [width  |-> width,
                                  height |-> height,
                                  chans  |-> 3,
                                  px     |-> [p \in 1..(width * height) |->
                                                 recover_pixel(share_data, p)]],
                       decoded_pixels |-> Len(shares) * width * height]

\* shares_to_image, lines 149-262; shares is a list of <<index, image>>.
\* decoded_pixels counts the cells read from the share images.
shares_to_image(shares) ==
    IF shares = <<>>
    THEN [err |-> ErrNoShares, image |-> <<>>, decoded_pixels |-> 0]
    ELSE
    LET width  == shares[1][2].width
        height == shares[1][2].height
        bad    == {k \in 1..Len(shares) :
                      ~extract_ok(shares[k][2], width, height)}
    IN  IF bad # {}
        THEN LET k == CHOOSE m \in bad : \A n \in bad : m <= n
             IN  [err |-> ErrIndex,
                  image |-> <<>>,
                  decoded_pixels |->
                      (k - 1) * width * height
                      + cells_read(shares[k][2], width, height)]
        ELSE LET share_data ==
                     [k \in 1..Len(shares) |->
                         <<shares[k][1],
                           [p \in 1..(width * height) |->
                               decode_pixel(cell(shares[k][2],
                                                 (p - 1) \div width,
                                                 (p - 1) % width),
                                            shares[k][2].chans)]>>]
             IN  [err |-> "none",
                  image |-> [width  |-> width,
                             height |-> height,
                             chans  |-> 3,
                             px     |-> [p \in 1..(width * height) |->
                                            recover_pixel(share_data, p)]],
                  decoded_pixels |-> Len(shares) * width * height]

----------------------------------------------------------------------------
(* app.py: the "Combine Shares" tab.  A file is a record [name, ok, img]:  *)
(* name is the number in share_<n>.png (None when the name has no such     *)
(* number), ok tells whether Image.open succeeds, img is the image.        *)

ErrTooFew == "You need to upload at least 2 shares to combine the image"

\* app.py, lines 264-288: uploaded_share_data after files 1..k
RECURSIVE load_shares(_, _)
load_shares(files, k) ==
    IF k = 0
    THEN <<>>
    ELSE LET data == load_shares(files, k - 1)
             f    == files[k]
             idx  == IF f.name # None THEN f.name ELSE Len(data) + 1
         IN  IF f.ok THEN Append(data, <<idx, f.img>>) ELSE data

TabState(status, err, data) ==
    [status |-> status, err |-> err, data |-> data,
     image |-> <<>>, decoded_pixels |-> 0]

\* app.py, lines 258-310: what the tab shows for the uploaded files, in a
\* session whose uploaded_share_data starts empty
upload_tab_min_1(files) ==
    IF files = <<>>
    THEN TabState("prompt", "none", <<>>)
    ELSE LET data == load_shares(files, Len(files))
         IN  IF Len(data) < 1
             THEN TabState("error", ErrTooFew, data)
             ELSE TabState("ready", "none", data)

upload_tab(files) ==
    IF files = <<>>
    THEN TabState("prompt", "none", <<>>)
    ELSE LET data == load_shares(files, Len(files))
         IN  IF Len(data) < 2
             THEN TabState("error", ErrTooFew, data)
             ELSE TabState("ready", "none", data)

\* app.py, lines 310-353: "Combine and Show Image" pressed
click_combine(data) ==
    LET res == shares_to_image(data)
    IN  [status |-> IF res.err = "none" THEN "ok" ELSE "error",
         err    |-> res.err,
         data   |-> data,
         image  |-> res.image,
         decoded_pixels |-> res.decoded_pixels]

----------------------------------------------------------------------------
(* image_utils.py: the progress callback of the two pixel loops.  A report *)
(* is the fraction <<n, d>> standing for the float n / d; the literal 1.0  *)
(* is <<1, 1>>.                                                            *)

\* a report is made after every ProgressEvery-th pixel
ProgressEvery == 100

\* image_to_shares lines 132-135, shares_to_image lines 252-255
after_pixel(pr) ==
    LET processed_pixels == pr.processed_pixels + 1
    IN  [pr EXCEPT
            !.processed_pixels = processed_pixels,
            !.reports = IF processed_pixels % ProgressEvery = 0
                        THEN Append(@, <<processed_pixels, pr.total_pixels>>)
                        ELSE @]

final_update_missing(pr) == pr

\* image_to_shares lines 143-145, shares_to_image lines 257-259
final_update(pr) == [pr EXCEPT !.reports = Append(@, <<1, 1>>)]

----------------------------------------------------------------------------
(* Callers of the scalar engine *)

\* the sub-list of s at the positions in S, in list order
RECURSIVE SubSeqAt(_, _, _)
SubSeqAt(s, S, k) ==
    IF k > Len(s)
    THEN <<>>
    ELSE (IF k \in S THEN <<s[k]>> ELSE <<>>) \o SubSeqAt(s, S, k + 1)

Reverse(s) == [k \in 1..Len(s) |-> s[Len(s) + 1 - k]]

\* the variables of the operations a caller does not use
CodecIdle == pixel = <<>> /\ encoded = <<>> /\ decoded = <<>>
ImageIdle ==
    /\ image = <<>>
    /\ shares_out = <<>>
    /\ uploaded = <<>>
    /\ combined = <<>>

AuxIdle == inv_num = 0 /\ inverse = <<>> /\ progress = <<>>

NoSplit == [err |-> "none", coefficients |-> <<>>, shares |-> <<>>]
NoCall  == [err |-> "none", val |-> None]

Init ==
    /\ pc = "split"
    /\ secret \in InRange \cup OutOfRange
    /\ threshold \in (0 - 1)..(MaxShares + 1)
    /\ num_shares \in 0..MaxShares
    /\ split = NoSplit
    /\ rshares = <<>>
    /\ recovered = NoCall
    /\ CodecIdle
    /\ ImageIdle
    /\ AuxIdle

\* split_secret(secret, threshold, num_shares) with some outcome of random
SplitSecret ==
    /\ pc = "split"
    /\ \E rnd \in [1..Max(threshold - 1, 0) -> Coefs] :
           split' = split_secret(secret, threshold, num_shares, PRIME, rnd)
    /\ pc' = IF split'.err = "none" THEN "recover" ELSE "failed"
    /\ UNCHANGED <<secret, threshold, num_shares, rshares, recovered>>
    /\ UNCHANGED <<codecVars, imageVars>>
    /\ UNCHANGED auxVars

\* recover_secret on a non-empty selection of the shares just produced, in
\* ascending or descending order of index
RecoverSecret ==
    /\ pc = "recover"
    /\ \E S \in (SUBSET (1..Len(split.shares))) \ {{}} :
       \E rev \in BOOLEAN :
           rshares' = IF rev THEN Reverse(SubSeqAt(split.shares, S, 1))
                             ELSE SubSeqAt(split.shares, S, 1)
    /\ recovered' = recover_secret(rshares', PRIME)
    /\ pc' = "done"
    /\ UNCHANGED <<secret, threshold, num_shares, split>>
    /\ UNCHANGED <<codecVars, imageVars>>
    /\ UNCHANGED auxVars

Next == SplitSecret \/ RecoverSecret

Spec == Init /\ [][Next]_vars

----------------------------------------------------------------------------
(* A caller that hands recover_secret a list of its own making *)

ShareYs == {0, 10, 20, PRIME - 1}

RECURSIVE ListsUpTo(_)
ListsUpTo(n) ==
    IF n = 0
    THEN {<<>>}
    ELSE LET shorter == ListsUpTo(n - 1)
         IN  shorter \cup
             {Append(l, <<x, y>>) :
                 l \in {m \in shorter : Len(m) = n - 1},
                 x \in 1..MaxX, y \in ShareYs}

InitRecover ==
    /\ pc = "recover_any"
    /\ secret = 0
    /\ threshold = 0
    /\ num_shares = 0
    /\ split = NoSplit
    /\ rshares = <<>>
    /\ recovered = NoCall
    /\ CodecIdle
    /\ ImageIdle
    /\ AuxIdle

RecoverAny ==
    /\ pc = "recover_any"
    /\ rshares' \in ListsUpTo(MaxList)
    /\ recovered' = recover_secret(rshares', PRIME)
    /\ pc' = "done_any"
    /\ UNCHANGED <<secret, threshold, num_shares, split>>
    /\ UNCHANGED <<codecVars, imageVars>>
    /\ UNCHANGED auxVars

NextRecover == RecoverAny

SpecRecover == InitRecover /\ [][NextRecover]_vars

----------------------------------------------------------------------------
(* One pixel of a share through create_preview_image and back *)

ScalarIdle ==
    /\ secret = 0
    /\ threshold = 0
    /\ num_shares = 0
    /\ split = NoSplit
    /\ rshares = <<>>
    /\ recovered = NoCall

ChannelVals == (0..ChanSpread) \cup ((PRIME - 1 - ChanSpread)..(PRIME - 1))

InitCodec ==
    /\ pc = "encode"
    /\ pixel \in ChannelVals \X ChannelVals \X ChannelVals
    /\ encoded = <<>>
    /\ decoded = <<>>
    /\ ScalarIdle
    /\ ImageIdle
    /\ AuxIdle

EncodePixel ==
    /\ pc = "encode"
    /\ encoded' = encode_pixel(pixel)
    /\ pc' = "decode"
    /\ UNCHANGED <<pixel, decoded, scalarVars, imageVars>>
    /\ UNCHANGED auxVars

\* the preview is an RGBA image, so the cell is read with 4 channels
DecodePixel ==
    /\ pc = "decode"
    /\ decoded' = decode_pixel(encoded, 4)
    /\ pc' = "decoded"
    /\ UNCHANGED <<pixel, encoded, scalarVars, imageVars>>
    /\ UNCHANGED auxVars

NextCodec == EncodePixel \/ DecodePixel

SpecCodec == InitCodec /\ [][NextCodec]_vars

----------------------------------------------------------------------------
(* The codec on a share pixel, or the decoder on a cell of any uploaded    *)
(* RGB or RGBA image                                                       *)

ByteVals == (0..ChanSpread) \cup ((255 - ChanSpread)..255)

AlphaVals == {0, 100} \cup (247..255)

UploadedCells ==
    (ByteVals \X ByteVals \X ByteVals)
        \cup (ByteVals \X ByteVals \X ByteVals \X AlphaVals)

InitCodecAny ==
    /\ \/ pc = "encode" /\ pixel \in ChannelVals \X ChannelVals \X ChannelVals
       \/ pc = "cell" /\ pixel = <<>>
    /\ encoded = <<>>
    /\ decoded = <<>>
    /\ ScalarIdle
    /\ ImageIdle
    /\ AuxIdle

\* shares_to_image reads one cell of an uploaded image of 3 or 4 channels
DecodeUploadedCell ==
    /\ pc = "cell"
    /\ encoded' \in UploadedCells
    /\ decoded' = decode_pixel(encoded', Len(encoded'))
    /\ pc' = "decoded_cell"
    /\ UNCHANGED <<pixel, scalarVars, imageVars>>
    /\ UNCHANGED auxVars

NextCodecAny == EncodePixel \/ DecodePixel \/ DecodeUploadedCell

SpecCodecAny == InitCodecAny /\ [][NextCodecAny]_vars

----------------------------------------------------------------------------
(* The "Combine Shares" tab: files are uploaded, then the button pressed   *)

UploadShares(files) ==
    /\ uploaded' = files
    /\ combined' = upload_tab(files)
    /\ pc' = "tab"
    /\ UNCHANGED <<image, shares_out, scalarVars, codecVars>>
    /\ UNCHANGED auxVars

\* the button is only drawn when at least 2 shares are loaded
ClickCombine ==
    /\ pc = "tab"
    /\ combined.status = "ready"
    /\ combined' = click_combine(combined.data)
    /\ pc' = "done"
    /\ UNCHANGED <<image, shares_out, uploaded, scalarVars, codecVars>>
    /\ UNCHANGED auxVars

----------------------------------------------------------------------------
(* An image is split into share images, some of which are then combined    *)

PixelSamples ==
    << <<0, 0, 0>>, <<255, 255, 255>>, <<0, 255, 128>>, <<1, 254, 7>> >>

\* RGB images whose pixels run through PixelSamples from some start
Images ==
    {[width  |-> w,
      height |-> h,
      chans  |-> 3,
      px     |-> [p \in 1..(w * h) |->
                     PixelSamples[((start + p - 2) % Len(PixelSamples)) + 1]]] :
        w \in 1..MaxDim, h \in 1..MaxDim, start \in 1..Len(PixelSamples)}

ImgCoefs == {1, PRIME - 1}

InitImage ==
    /\ pc = "img_split"
    /\ image \in Images
    /\ num_shares \in 2..MaxImgShares
    /\ threshold \in 2..num_shares
    /\ shares_out = <<>>
    /\ uploaded = <<>>
    /\ combined = <<>>
    /\ secret = 0
    /\ split = NoSplit
    /\ rshares = <<>>
    /\ recovered = NoCall
    /\ CodecIdle
    /\ AuxIdle

\* "Encrypt and Create Shares" pressed
ImageToShares ==
    /\ pc = "img_split"
    /\ \E rnd \in [1..RndPeriod -> ImgCoefs] :
           shares_out' = image_to_shares(image, num_shares, threshold, rnd)
    /\ pc' = IF shares_out'.err = "none" THEN "upload_own" ELSE "failed"
    /\ UNCHANGED <<image, uploaded, combined, scalarVars, codecVars>>
    /\ UNCHANGED auxVars

\* some of the share images, saved as share_<k>.png, are uploaded
UploadOwnShares ==
    /\ pc = "upload_own"
    /\ \E S \in SUBSET (1..Len(shares_out.previews)) :
           UploadShares(SubSeqAt(
               [k \in 1..Len(shares_out.previews) |->
                   [name |-> k, ok |-> TRUE, img |-> shares_out.previews[k]]],
               S, 1))

NextImage == ImageToShares \/ UploadOwnShares \/ ClickCombine

SpecImage == InitImage /\ [][NextImage]_vars

----------------------------------------------------------------------------
(* Arbitrary files are uploaded to the combine tab *)

ForeignCells == {<<10, 20, 30>>, <<255, 255, 7, 251>>, <<255, 20, 30, 255>>}

ForeignImages ==
    {[width  |-> w,
      height |-> h,
      chans  |-> Len(c),
      px     |-> [p \in 1..(w * h) |-> c]] :
        w \in 1..MaxDim, h \in 1..MaxDim, c \in ForeignCells}

Unreadable ==
    [name |-> None, ok |-> FALSE,
     img |-> [width |-> 1, height |-> 1, chans |-> 3, px |-> << <<0, 0, 0>> >>]]

Files ==
    {[name |-> n, ok |-> TRUE, img |-> i] : n \in {None, 2}, i \in ForeignImages}
        \cup {Unreadable}

RECURSIVE FileLists(_)
FileLists(n) ==
    IF n = 0
    THEN {<<>>}
    ELSE LET shorter == FileLists(n - 1)
         IN  shorter \cup
             {Append(l, f) : l \in {m \in shorter : Len(m) = n - 1}, f \in Files}

InitCombine ==
    /\ pc = "upload"
    /\ ScalarIdle
    /\ CodecIdle
    /\ ImageIdle
    /\ AuxIdle

UploadForeignShares ==
    /\ pc = "upload"
    /\ \E files \in FileLists(MaxFiles) : UploadShares(files)

NextCombine == UploadForeignShares \/ ClickCombine

SpecCombine == InitCombine /\ [][NextCombine]_vars

----------------------------------------------------------------------------
(* A pixel loop of image_to_shares or shares_to_image with a callback *)

InitProgress ==
    /\ pc = "loop"
    /\ progress \in {[op |-> o, total_pixels |-> t, processed_pixels |-> 0,
                      reports |-> <<>>] :
                        o \in {"image_to_shares", "shares_to_image"},
                        t \in 1..MaxPixels}
    /\ inv_num = 0
    /\ inverse = <<>>
    /\ ScalarIdle
    /\ CodecIdle
    /\ ImageIdle

\* one pass of the loop body
ProcessPixel ==
    /\ pc = "loop"
    /\ progress.processed_pixels < progress.total_pixels
    /\ progress' = after_pixel(progress)
    /\ UNCHANGED <<pc, inv_num, inverse, scalarVars, codecVars, imageVars>>

\* the loops are over: the final update, then return
FinalUpdate ==
    /\ pc = "loop"
    /\ progress.processed_pixels = progress.total_pixels
    /\ progress' = final_update(progress)
    /\ pc' = "returned"
    /\ UNCHANGED <<inv_num, inverse, scalarVars, codecVars, imageVars>>

\* the call raises before the first pixel is done: split_secret rejects the
\* parameters, or a share image is smaller than the first one
RaiseBeforeLoop ==
    /\ pc = "loop"
    /\ progress.processed_pixels = 0
    /\ pc' = "raised"
    /\ UNCHANGED <<progress, inv_num, inverse, scalarVars, codecVars, imageVars>>

NextProgress == ProcessPixel \/ FinalUpdate \/ RaiseBeforeLoop

SpecProgress == InitProgress /\ [][NextProgress]_vars

----------------------------------------------------------------------------
(* mod_inverse(num, PRIME) on a field element *)

InitInverse ==
    /\ pc = "inverse"
    /\ inv_num \in 0..(PRIME - 1)
    /\ inverse = <<>>
    /\ progress = <<>>
    /\ ScalarIdle
    /\ CodecIdle
    /\ ImageIdle

ModInverse ==
    /\ pc = "inverse"
    /\ inverse' = mod_inverse(inv_num, PRIME)
    /\ pc' = "inverted"
    /\ UNCHANGED <<inv_num, progress, scalarVars, codecVars, imageVars>>

NextInverse == ModInverse

SpecInverse == InitInverse /\ [][NextInverse]_vars

----------------------------------------------------------------------------
(* Properties of the scalar engine *)

XsOf(shares) == {shares[k][1] : k \in 1..Len(shares)}

HasDuplicateX(shares) ==
    \E i, j \in 1..Len(shares) : i # j /\ shares[i][1] = shares[j][1]

\* C1: round trip and subset invariance. After split_secret(s, T, N) with
\* s in [0,256] and 2 <= T <= N, recover_secret on any selection of at least
\* T of the returned shares returns exactly s (so any two selections agree).
C1_RoundTrip ==
    (pc = "done" /\ threshold >= 2 /\ Len(rshares) >= threshold)
        => recovered = Return(secret)

\* a split with T = 3, N = 4 of the secret 256 recovered from shares 2, 3, 4
C1_Witness ==
    /\ pc = "done"
    /\ secret = PRIME - 1
    /\ threshold = 3
    /\ num_shares = 4
    /\ XsOf(rshares) = {2, 3, 4}
    /\ split.coefficients[2] = PRIME - 1
    /\ recovered = Return(PRIME - 1)

\* C5: recover_secret on a list of two or more shares holding two entries
\* with the same x raises the ValueError of mod_inverse and returns no value,
\* whatever the y values are.
C5_DuplicateX ==
    (pc = "done_any" /\ Len(rshares) >= 2 /\ HasDuplicateX(rshares))
        => recovered = Raise(ErrInverse)

\* recover_secret([(2,10),(2,20)]) has raised
C5_Witness ==
    /\ pc = "done_any"
    /\ rshares = << <<2, 10>>, <<2, 20>> >>
    /\ recovered.err = ErrInverse
    /\ recovered.val = None

\* C6: split_secret with threshold > num_shares raises the threshold
\* ValueError for every secret (in range or not), having drawn no coefficient
\* and produced no share.
C6_ThresholdAboveShares ==
    (pc # "split" /\ threshold > num_shares)
        => /\ pc = "failed"
           /\ split.err = ErrThreshold
           /\ split.coefficients = <<>>
           /\ split.shares = <<>>

\* split_secret(100, 5, 3) has raised
C6_Witness ==
    /\ pc = "failed"
    /\ secret = 100
    /\ threshold = 5
    /\ num_shares = 3
    /\ split.err = ErrThreshold

\* C7 (as claimed): split_secret with threshold < 2 or num_shares < 2 raises
\* the invalid-parameters ValueError and returns no shares, for every secret
\* in [0,256].
C7_Claimed ==
    (pc # "split" /\ secret \in 0..(PRIME - 1)
                  /\ (threshold < 2 \/ num_shares < 2))
        => /\ split.err = ErrThreshold
           /\ split.shares = <<>>

\* C8: with 2 <= T <= N, split_secret raises the range ValueError and returns
\* no shares for a secret outside [0, PRIME-1], and accepts every secret in
\* [0, PRIME-1], 256 included, returning N shares.
C8_SecretRange ==
    (pc # "split" /\ 2 <= threshold /\ threshold <= num_shares)
        => IF secret \in 0..(PRIME - 1)
           THEN split.err = "none" /\ Len(split.shares) = num_shares
           ELSE /\ pc = "failed"
                /\ split.err = ErrRange
                /\ split.coefficients = <<>>
                /\ split.shares = <<>>

\* split_secret(257, 2, 3) has raised
C8_Witness ==
    /\ pc = "failed"
    /\ secret = PRIME
    /\ threshold = 2
    /\ num_shares = 3
    /\ split.err = ErrRange

----------------------------------------------------------------------------
(* Properties of the channel codec *)

\* the channels of a share pixel that hold 256
Subset256(rgb) == {c \in 1..3 : rgb[c] = 256}

\* the marker code table of the format: one code per subset of {R, G, B}
MarkerCode(S) ==
    IF S = {} THEN 254
    ELSE IF S = {1} THEN 255
    ELSE IF S = {2} THEN 253
    ELSE IF S = {3} THEN 252
    ELSE IF S = {1, 2} THEN 251
    ELSE IF S = {1, 3} THEN 250
    ELSE IF S = {2, 3} THEN 249
    ELSE 248

\* C2 (as claimed): for every (r, g, b) in [0,256]^3, decoding the RGBA cell
\* that create_preview_image writes returns (r, g, b) again.
C2_Claimed == (pc = "decoded") => decoded = pixel

\* C4 (as claimed): the alpha written for a pixel is the code of exactly the
\* subset of {R, G, B} whose share value is 256, the 8 subsets having 8
\* pairwise distinct codes (254, 255, 253, 252, 251, 250, 249, 248), so that
\* pixels with different subsets never get the same alpha.
C4_Claimed == (pc # "encode") => encoded[4] = MarkerCode(Subset256(pixel))

----------------------------------------------------------------------------
(* Properties of the image operations *)

\* C3 (as claimed): image_to_shares followed by shares_to_image on any T or
\* more of the N share images, each with its own index, returns an image
\* equal to the original in every pixel and channel, also when a share value
\* of some pixel is 256.
C3_Claimed ==
    (pc = "done" /\ Len(uploaded) >= threshold)
        => combined.status = "ok" /\ combined.image = image

\* C9: a combine request with fewer than 2 share images never reaches
\* shares_to_image. When files were uploaded and fewer than 2 of them loaded,
\* the tab shows its error and offers no button; with no file at all it only
\* asks for uploads. No cell is decoded and no image is produced.
C9_TooFewShares ==
    (pc \in {"tab", "done"} /\ Len(combined.data) < 2)
        => /\ pc = "tab"
           /\ ~ENABLED ClickCombine
           /\ combined.image = <<>>
           /\ combined.decoded_pixels = 0
           /\ IF uploaded = <<>>
              THEN combined.status = "prompt"
              ELSE combined.status = "error" /\ combined.err = ErrTooFew

\* one readable share image was uploaded and the tab has refused it
C9_Witness ==
    /\ pc = "tab"
    /\ Len(uploaded) = 1
    /\ Len(combined.data) = 1
    /\ combined.status = "error"

SameSize(a, b) == a.width = b.width /\ a.height = b.height

MixedSizes(data) ==
    \E i, j \in 1..Len(data) : ~SameSize(data[i][2], data[j][2])

\* C10 (as claimed): share images whose width or height differ are rejected
\* with an error before any pixel is processed, and no reconstructed image
\* is returned.
C10_Claimed ==
    (pc = "done" /\ MixedSizes(combined.data))
        => /\ combined.status = "error"
           /\ combined.image = <<>>
           /\ combined.decoded_pixels = 0


\* the share values of channel c at output pixel p, as shares_to_image
\* gathers them from the uploaded images
ChannelShares(data, p, c) ==
    LET width == data[1][2].width
    IN  [k \in 1..Len(data) |->
            <<data[k][1],
              decode_pixel(cell(data[k][2], (p - 1) \div width, (p - 1) % width),
                           data[k][2].chans)[c]>>]

NoSmallerShare(data) ==
    \A k \in 1..Len(data) :
        data[k][2].width >= data[1][2].width
            /\ data[k][2].height >= data[1][2].height

\* C11: when every share image covers the first one's grid, shares_to_image
\* returns an image of the first share's full dimensions; a pixel for which
\* the recovery of some channel raises is black (0,0,0), and a pixel whose
\* recovery succeeds holds the recovered value of each channel (values up to
\* 255; the value 256 is the subject of C12).
C11_BlackOnFailure ==
    (pc = "done" /\ NoSmallerShare(combined.data))
        => /\ combined.status = "ok"
           /\ combined.image.width = combined.data[1][2].width
           /\ combined.image.height = combined.data[1][2].height
           /\ Len(combined.image.px)
                  = combined.image.width * combined.image.height
           /\ \A p \in 1..Len(combined.image.px) :
                  LET rec(c) == recover_secret(
                                    ChannelShares(combined.data, p, c), PRIME)
                  IN  IF \E c \in 1..3 : rec(c).err # "none"
                      THEN combined.image.px[p] = <<0, 0, 0>>
                      ELSE \A c \in 1..3 :
                               rec(c).val <= 255
                                   => combined.image.px[p][c] = rec(c).val

\* two 2x2 share images with the same index were combined: a 2x2 black image
C11_Witness ==
    /\ pc = "done"
    /\ Len(combined.data) = 2
    /\ combined.data[1][1] = combined.data[2][1]
    /\ combined.data[1][2].width = 2
    /\ combined.data[1][2].height = 2
    /\ combined.status = "ok"
    /\ combined.image.px = << <<0, 0, 0>>, <<0, 0, 0>>, <<0, 0, 0>>, <<0, 0, 0>> >>


\* C12 (as claimed): shares_to_image clamps each recombined channel value v
\* in [0,256] into [0,255]: v <= 255 is emitted unchanged and 256 is emitted
\* as 255.
C12_Claimed ==
    (pc = "done" /\ combined.status = "ok")
        => \A p \in 1..Len(combined.image.px) :
               LET rec(c) == recover_secret(
                                 ChannelShares(combined.data, p, c), PRIME)
               IN  (\A c \in 1..3 : rec(c).err = "none")
                       => \A c \in 1..3 :
                              combined.image.px[p][c] = Min(rec(c).val, 255)


----------------------------------------------------------------------------
(* Properties of the progress reports *)

FracLeq(a, b) == a[1] * b[2] <= b[1] * a[2]

\* C13: in a run of image_to_shares or shares_to_image with a callback, on
\* any number of pixels, every reported value lies in [0.0, 1.0] and none is
\* lower than the one before it; when the call returns, at least one value
\* has been reported and the last one is exactly 1.0.
C13_Progress ==
    (pc \in {"loop", "returned", "raised"})
        => /\ \A k \in 1..Len(progress.reports) :
                  /\ FracLeq(<<0, 1>>, progress.reports[k])
                  /\ FracLeq(progress.reports[k], <<1, 1>>)
           /\ \A k \in 1..(Len(progress.reports) - 1) :
                  FracLeq(progress.reports[k], progress.reports[k + 1])
           /\ (pc = "returned"
                  => /\ Len(progress.reports) >= 1
                     /\ progress.reports[Len(progress.reports)] = <<1, 1>>)

\* a run over 200 pixels has reported 0.5, 1.0 (as 200/200) and the final 1.0
C13_Witness ==
    /\ pc = "returned"
    /\ progress.op = "shares_to_image"
    /\ progress.total_pixels = 200
    /\ progress.reports = << <<100, 200>>, <<200, 200>>, <<1, 1>> >>


----------------------------------------------------------------------------
(* Pass-through of ordinary channel values *)

\* the alpha codes reserved for pixels holding a 256
ReservedCodes == {255, 253, 252, 251, 250, 249, 248}

\* the channels an alpha code flags
Flagged(alpha) == {c \in 1..3 : \E S \in SUBSET (1..3) :
                                    S # {} /\ c \in S /\ MarkerCode(S) = alpha}

\* C14: the encoder stores every share value in [0,255] as that same byte;
\* the decoder returns a channel's byte as is unless the alpha code flags that
\* channel; for a 3-channel image, or an alpha outside the reserved codes,
\* the decoder returns all three bytes unchanged.
C14_PassThrough ==
    /\ (pc \in {"decode", "decoded"})
           => \A c \in 1..3 : pixel[c] <= 255 => encoded[c] = pixel[c]
    /\ (pc \in {"decoded", "decoded_cell"})
           => /\ \A c \in 1..3 :
                     \/ decoded[c] = encoded[c]
                     \/ Len(encoded) = 4 /\ c \in Flagged(encoded[4])
              /\ (Len(encoded) = 3 \/ encoded[4] \notin ReservedCodes)
                     => decoded = <<encoded[1], encoded[2], encoded[3]>>

\* an RGBA cell of three 255 bytes with the unreserved alpha 254 was decoded
C14_Witness ==
    /\ pc = "decoded_cell"
    /\ encoded = <<255, 255, 255, 254>>
    /\ decoded = <<255, 255, 255>>


----------------------------------------------------------------------------
(* Fewer than T shares *)

\* the shares in rshares are those split_secret would return, at the same x,
\* for the secret s and the drawn coefficients cs
Yields(s, cs, shares) ==
    \A k \in 1..Len(shares) :
        evaluate_polynomial(<<s>> \o cs, shares[k][1], PRIME) = shares[k][2]

\* C15 (as claimed): for every set of T-1 shares split_secret can produce,
\* every candidate secret in [0,256] is consistent with them: some choice of
\* T-1 coefficients in [1,256] yields exactly those share values.
C15_Claimed ==
    (pc = "done" /\ threshold >= 2 /\ Len(rshares) = threshold - 1)
        => \A s \in 0..(PRIME - 1) :
               \E cs \in [1..(threshold - 1) -> 1..(PRIME - 1)] :
                   Yields(s, cs, rshares)

\* C16: with 2 <= T <= N, recover_secret on exactly T-1 of the shares of
\* split_secret returns, without raising, a field element in [0,256] that
\* differs from the secret.
C16_UnderThreshold ==
    (pc = "done" /\ threshold >= 2 /\ Len(rshares) = threshold - 1)
        => /\ recovered.err = "none"
           /\ recovered.val \in 0..(PRIME - 1)
           /\ recovered.val # secret

\* shares 2 and 4 of a split of 256 with T = 3, N = 4 were recombined
C16_Witness ==
    /\ pc = "done"
    /\ secret = PRIME - 1
    /\ threshold = 3
    /\ num_shares = 4
    /\ XsOf(rshares) = {2, 4}
    /\ recovered.err = "none"
    /\ recovered.val # secret


----------------------------------------------------------------------------
(* The modular inverse *)

\* C17: for every a in [1,256], mod_inverse(a, 257) returns b with
\* 0 <= b < 257 and (a * b) mod 257 = 1; for a = 0 it raises the ValueError
\* and returns no value.
C17_ModInverse ==
    (pc = "inverted")
        => IF inv_num = 0
           THEN inverse = Raise(ErrInverse)
           ELSE /\ inverse.err = "none"
                /\ inverse.val \in 0..(PRIME - 1)
                /\ (inv_num * inverse.val) % PRIME = 1

\* mod_inverse(256, 257) has returned 256
C17_Witness ==
    /\ pc = "inverted"
    /\ inv_num = PRIME - 1
    /\ inverse = Return(PRIME - 1)

====
